---- MODULE Spec2Model ----
(***************************************************************************)
(* Country name game (wordly): the text normaliser, the country reference  *)
(* store, the classifier and the game session of src/game_logic.py.        *)
(*                                                                         *)
(* A Python str is a sequence of one-character strings; a str of length 1  *)
(* that is used as a letter (current_letter, the keys of the by-letter     *)
(* index) is the character itself.  None is the string "None".             *)
(***************************************************************************)
EXTENDS Integers, Sequences, FiniteSets, TLC

VARIABLES countries_data, countries_by_letter, model, game, call, result,
          game_instances

vars == <<countries_data, countries_by_letter, model, game, call, result,
          game_instances>>

None == "None"

(***************************************************************************)
(* Bounds                                                                  *)
(***************************************************************************)
\* how many entries of the sample of the country list the store is built from
NumCountries == 5

\* the longest text given to the normaliser on its own
MaxTextLen == 3

\* how many browser sessions hold a session_id
NumSessions == 2

\* how many entries of the sample the store is built from when several
\* sessions play
NumAppCountries == 3

(***************************************************************************)
(* Characters and the str methods the program uses                         *)
(***************************************************************************)
ascii_uppercase ==
    <<"A","B","C","D","E","F","G","H","I","J","K","L","M",
      "N","O","P","Q","R","S","T","U","V","W","X","Y","Z">>

ascii_lowercase ==
    <<"a","b","c","d","e","f","g","h","i","j","k","l","m",
      "n","o","p","q","r","s","t","u","v","w","x","y","z">>

digits == <<"0","1","2","3","4","5","6","7","8","9">>

Range(s) == {s[i] : i \in DOMAIN s}

uppercase_set == Range(ascii_uppercase)
lowercase_set == Range(ascii_lowercase)
digit_set == Range(digits)

\* the lower-case character of each upper-case one, and the reverse
lower_of ==
    [c \in uppercase_set |->
        ascii_lowercase[CHOOSE i \in DOMAIN ascii_uppercase : ascii_uppercase[i] = c]]

upper_of ==
    [c \in lowercase_set |->
        ascii_uppercase[CHOOSE i \in DOMAIN ascii_lowercase : ascii_lowercase[i] = c]]

IsUpper(c) == c \in uppercase_set
IsLower(c) == c \in lowercase_set
IsCased(c) == IsUpper(c) \/ IsLower(c)

\* \w of the re module: alphanumerics and the underscore
IsWordChar(c) == IsCased(c) \/ c \in digit_set \/ c = "_"

\* \s of the re module, and what str.strip() removes
IsSpace(c) == c \in {" ", "\t", "\n"}

char_lower(c) == IF IsUpper(c) THEN lower_of[c] ELSE c

char_upper(c) == IF IsLower(c) THEN upper_of[c] ELSE c

\* str.lower()
str_lower(text) == [i \in 1..Len(text) |-> char_lower(text[i])]

\* str.title(): a cased character is upper-cased after an uncased one (or at
\* the start) and lower-cased after a cased one
str_title(text) ==
    [i \in 1..Len(text) |->
        IF i = 1 \/ ~IsCased(text[i-1])
        THEN char_upper(text[i])
        ELSE char_lower(text[i])]

\* str.strip()
RECURSIVE lstrip(_)
lstrip(text) ==
    IF text # <<>> /\ IsSpace(Head(text)) THEN lstrip(Tail(text)) ELSE text

RECURSIVE rstrip(_)
rstrip(text) ==
    IF text # <<>> /\ IsSpace(text[Len(text)])
    THEN rstrip(SubSeq(text, 1, Len(text) - 1))
    ELSE text

str_strip(text) == rstrip(lstrip(text))

\* str.startswith(prefix) for a prefix of one character
startswith(text, prefix) == text # <<>> /\ text[1] = prefix

(***************************************************************************)
(* nlp_processor.py: TextProcessor                                         *)
(***************************************************************************)
\* re.sub(r'[^\w\s]', ' ', text)
sub_punctuation(text) ==
    [i \in 1..Len(text) |->
        IF IsWordChar(text[i]) \/ IsSpace(text[i]) THEN text[i] ELSE " "]

\* re.sub(r'\s+', ' ', text)
RECURSIVE sub_whitespace(_)
sub_whitespace(text) ==
    IF text = <<>> THEN <<>>
    ELSE IF IsSpace(Head(text))
         THEN <<" ">> \o sub_whitespace(lstrip(text))
         ELSE <<Head(text)>> \o sub_whitespace(Tail(text))

\* mutant: the text is stripped before the punctuation is replaced
preprocess_text_StripsFirst(text) ==
    sub_whitespace(sub_punctuation(str_strip(str_lower(text))))

preprocess_text(text) ==
    str_strip(sub_whitespace(sub_punctuation(str_lower(text))))

(***************************************************************************)
(* countries_data.py: CountriesDataManager                                 *)
(***************************************************************************)
\* entries of the hard-coded list of _load_countries_data, in its order
countries ==
    << <<"I","r","a","n">>,
       <<"I","r","a","q">>,
       <<"O","m","a","n">>,
       <<"T","i","m","o","r","-","L","e","s","t","e">>,
       <<"T","o","g","o">>,
       <<"T","o","n","g","a">> >>

_load_countries_data(names) == [i \in 1..Len(names) |-> str_lower(names[i])]

\* mutant: a letter keeps only the last of its countries
RECURSIVE index_loop_KeepsLast(_, _)
index_loop_KeepsLast(data, letter_index) ==
    IF data = <<>> THEN letter_index
    ELSE LET country == Head(data)
             first_letter == char_lower(country[1])
         IN  index_loop_KeepsLast(Tail(data),
               [l \in DOMAIN letter_index \cup {first_letter} |->
                  IF l = first_letter THEN <<country>> ELSE letter_index[l]])

RECURSIVE index_loop(_, _)
index_loop(data, letter_index) ==
    IF data = <<>> THEN letter_index
    ELSE LET country == Head(data)
             first_letter == char_lower(country[1])
         IN  index_loop(Tail(data),
               [l \in DOMAIN letter_index \cup {first_letter} |->
                  IF l = first_letter
                  THEN (IF l \in DOMAIN letter_index THEN letter_index[l] ELSE <<>>)
                         \o <<country>>
                  ELSE letter_index[l]])

_index_countries_by_letter(data) == index_loop(data, <<>>)

get_all_countries == countries_data

\* mutant: the index is asked with the upper-case letter
get_countries_by_letter_UpperKey(letter) ==
    IF char_upper(letter) \in DOMAIN countries_by_letter
    THEN countries_by_letter[char_upper(letter)]
    ELSE <<>>

get_countries_by_letter(letter) ==
    IF char_lower(letter) \in DOMAIN countries_by_letter
    THEN countries_by_letter[char_lower(letter)]
    ELSE <<>>

data_manager_is_valid_country(country_name) ==
    str_lower(country_name) \in Range(countries_data)

\* mutant: every letter of the alphabet is offered
get_available_starting_letters_WholeAlphabet == Range(ascii_lowercase)

get_available_starting_letters == DOMAIN countries_by_letter

(***************************************************************************)
(* nlp_processor.py: CountryClassifier.  The trained model is an external  *)
(* artifact: it is the set of processed texts that predict() labels 1.     *)
(***************************************************************************)
classifier_is_valid_country(country_name) ==
    LET processed_input == preprocess_text(country_name)
    IN  processed_input \in model

(***************************************************************************)
(* game_logic.py: CountryNameGame.  A method is an operator from the       *)
(* instance (self) to the set of outcomes [self, result] it can produce;   *)
(* random.choice makes the set larger than one.                            *)
(***************************************************************************)
__init__ ==
    [used_countries |-> {}, current_letter |-> None,
     game_active |-> FALSE, turns_count |-> 0]

\* mutant: the verdict of the classifier is ignored
is_valid_country_DatabaseOnly(country_name) ==
    LET processed_input == preprocess_text(country_name)
    IN  data_manager_is_valid_country(processed_input)

is_valid_country(country_name) ==
    LET processed_input == preprocess_text(country_name)
        ml_prediction == classifier_is_valid_country(processed_input)
        in_database == data_manager_is_valid_country(processed_input)
    IN  ml_prediction /\ in_database

\* mutant: the starting letter is not compared
country_starts_with_letter_Always(country_name, letter) ==
    TRUE

country_starts_with_letter(country_name, letter) ==
    LET processed_input == preprocess_text(country_name)
    IN  startswith(processed_input, char_lower(letter))

\* mutant: the reset forgets the countries of the previous game
reset_game_state_KeepsUsed(self) == [self EXCEPT !.turns_count = 0]

\* the reset of start_game
reset_game_state(self) == [self EXCEPT !.used_countries = {}, !.turns_count = 0]

\* mutant: the game is activated before the store is asked for its letters
start_game_ActivatesFirst(self) ==
    LET reset == [reset_game_state(self) EXCEPT !.game_active = TRUE]
        available_letters == get_available_starting_letters
    IN  IF available_letters = {}
        THEN {[self |-> reset,
               result |-> [status |-> "error",
                           message |-> <<"No countries available to play">>]]}
        ELSE {[self |-> [reset EXCEPT !.current_letter = letter],
               result |-> [status |-> "success",
                           message |-> <<"Game started! Name a country that starts with '",
                                         char_upper(letter), "'">>,
                           letter |-> char_upper(letter)]]
                : letter \in available_letters}

start_game(self) ==
    LET reset == reset_game_state(self)
        available_letters == get_available_starting_letters
    IN  IF available_letters = {}
        THEN {[self |-> reset,
               result |-> [status |-> "error",
                           message |-> <<"No countries available to play">>]]}
        ELSE {[self |-> [reset EXCEPT !.current_letter = letter,
                                      !.game_active = TRUE],
               result |-> [status |-> "success",
                           message |-> <<"Game started! Name a country that starts with '",
                                         char_upper(letter), "'">>,
                           letter |-> char_upper(letter)]]
                : letter \in available_letters}

\* mutant: the countries already used are not filtered out
available_countries_of_Unfiltered(self) ==
    Range(get_countries_by_letter(self.current_letter))

\* the list comprehension of computer_turn
available_countries_of(self) ==
    LET by_letter == get_countries_by_letter(self.current_letter)
    IN  {by_letter[i] : i \in {j \in DOMAIN by_letter :
                                  by_letter[j] \notin self.used_countries}}

computer_turn(self) ==
    LET available_countries == available_countries_of(self)
    IN  IF available_countries = {}
        THEN {[self |-> [self EXCEPT !.game_active = FALSE],
               result |-> [status |-> "game_over",
                           message |-> <<"I can't think of any more countries with this letter. You win!">>,
                           reason |-> "computer_out_of_options"]]}
        ELSE {[self |-> [self EXCEPT !.used_countries = @ \cup {computer_choice},
                                     !.turns_count = @ + 1],
               result |-> [status |-> "success",
                           message |-> <<"I choose '", str_title(computer_choice),
                                         "'. Your turn!">>,
                           computer_choice |-> str_title(computer_choice),
                           turn |-> self.turns_count + 1]]
                : computer_choice \in available_countries}

\* mutant: a rejection also forgets the countries played
game_over_ClearsUsed(self, country_name, text, reason) ==
    {[self |-> [self EXCEPT !.game_active = FALSE, !.used_countries = {}],
      result |-> [status |-> "game_over",
                  message |-> <<"'", country_name>> \o text,
                  reason |-> reason]]}

\* mutant: a rejection also forgets the turns played
game_over_ResetsTurns(self, country_name, text, reason) ==
    {[self |-> [self EXCEPT !.game_active = FALSE, !.turns_count = 0],
      result |-> [status |-> "game_over",
                  message |-> <<"'", country_name>> \o text,
                  reason |-> reason]]}

\* the three rejections of process_player_turn
game_over(self, country_name, text, reason) ==
    {[self |-> [self EXCEPT !.game_active = FALSE],
      result |-> [status |-> "game_over",
                  message |-> <<"'", country_name>> \o text,
                  reason |-> reason]]}

\* mutant: the player's move is recorded but not counted
add_player_country_NotCounted(self, processed_input) ==
    [self EXCEPT !.used_countries = @ \cup {processed_input}]

\* the acceptance of the player's move
add_player_country(self, processed_input) ==
    [self EXCEPT !.used_countries = @ \cup {processed_input},
                 !.turns_count = @ + 1]

\* mutant: the starting letter is checked before the validity
checked_player_turn_LetterFirst(self, country_name) ==
    LET processed_input == preprocess_text(country_name)
    IN  IF ~country_starts_with_letter(processed_input, self.current_letter)
        THEN game_over(self, country_name,
                       <<"' doesn't start with the letter '",
                         char_upper(self.current_letter), "'. Game over!">>,
                       "wrong_letter")
        ELSE IF ~is_valid_country(processed_input)
        THEN game_over(self, country_name,
                       <<"' is not a valid country. Game over!">>,
                       "invalid_country")
        ELSE IF processed_input \in self.used_countries
        THEN game_over(self, country_name,
                       <<"' has already been used. Game over!">>,
                       "already_used")
        ELSE computer_turn(add_player_country(self, processed_input))

\* process_player_turn after its check of game_active
checked_player_turn(self, country_name) ==
    LET processed_input == preprocess_text(country_name)
    IN  IF ~is_valid_country(processed_input)
        THEN game_over(self, country_name,
                       <<"' is not a valid country. Game over!">>,
                       "invalid_country")
        ELSE IF ~country_starts_with_letter(processed_input, self.current_letter)
        THEN game_over(self, country_name,
                       <<"' doesn't start with the letter '",
                         char_upper(self.current_letter), "'. Game over!">>,
                       "wrong_letter")
        ELSE IF processed_input \in self.used_countries
        THEN game_over(self, country_name,
                       <<"' has already been used. Game over!">>,
                       "already_used")
        ELSE computer_turn(add_player_country(self, processed_input))

\* mutant: the check of game_active is missing
process_player_turn_NoActiveCheck(self, country_name) ==
    checked_player_turn(self, country_name)

process_player_turn(self, country_name) ==
    IF ~self.game_active
    THEN {[self |-> self,
           result |-> [status |-> "error",
                       message |-> <<"No active game. Start a new game first.">>]]}
    ELSE checked_player_turn(self, country_name)

\* mutant: the state is reported without the check of game_active
get_game_state_NoActiveCheck(self) ==
    {[self |-> self,
      result |-> [status |-> "active",
                  current_letter |-> char_upper(self.current_letter),
                  used_countries |-> {str_title(country) :
                                         country \in self.used_countries},
                  turns_count |-> self.turns_count]]}

get_game_state(self) ==
    IF ~self.game_active
    THEN {[self |-> self,
           result |-> [status |-> "inactive", message |-> <<"No active game">>]]}
    ELSE {[self |-> self,
           result |-> [status |-> "active",
                       current_letter |-> char_upper(self.current_letter),
                       used_countries |-> {str_title(country) :
                                              country \in self.used_countries},
                       turns_count |-> self.turns_count]]}

(***************************************************************************)
(* The callers of a session                                                *)
(***************************************************************************)
\* the country list the store is built from: the sample, or no country at all
CountryLists ==
    {<<>>,
     SubSeq(countries, 1, IF NumCountries < Len(countries)
                          THEN NumCountries ELSE Len(countries))}

\* what a player types
Inputs ==
    UNION {Range(names) : names \in CountryLists}
      \cup {<<"t","O","G","o","!">>, <<"O","z">>, <<>>}

\* the processed texts the classifier is asked about
Texts == {preprocess_text(text) : text \in Inputs}

Init ==
    /\ \E names \in CountryLists :
          /\ countries_data = _load_countries_data(names)
          /\ countries_by_letter =
                _index_countries_by_letter(_load_countries_data(names))
    /\ model \in SUBSET Texts
    /\ game = __init__
    /\ call = [op |-> "__init__", arg |-> <<>>]
    /\ result = [status |-> "None"]
    /\ game_instances = <<>>

Returns(op, arg, outcomes) ==
    /\ \E out \in outcomes :
          /\ game' = out.self
          /\ result' = out.result
    /\ call' = [op |-> op, arg |-> arg]
    /\ UNCHANGED <<countries_data, countries_by_letter, model, game_instances>>

StartGame == Returns("start_game", <<>>, start_game(game))

ProcessPlayerTurn ==
    \E country_name \in Inputs :
        Returns("process_player_turn", country_name,
                process_player_turn(game, country_name))

GetGameState == Returns("get_game_state", <<>>, get_game_state(game))

Next == StartGame \/ ProcessPlayerTurn \/ GetGameState

Spec == Init /\ [][Next]_vars

(***************************************************************************)
(* One game played to its end: the game is started once and the player     *)
(* keeps submitting turns.                                                 *)
(***************************************************************************)
FirstStartGame == game.current_letter = None /\ StartGame

NextPlay == FirstStartGame \/ ProcessPlayerTurn \/ GetGameState

SpecPlay == Init /\ [][NextPlay]_vars /\ WF_vars(ProcessPlayerTurn)

(***************************************************************************)
(* app.py: the routes and the registry game_instances, a dict from         *)
(* session_id to CountryNameGame.  A route is an operator from the         *)
(* registry to the set of outcomes [game_instances, result].               *)
(***************************************************************************)
\* session.get('session_id') of a request that carries no session_id
NoSession == 0

SessionIds == 1..NumSessions

\* game_instances[session_id] = instance
dict_set(instances, session_id, instance) ==
    [s \in DOMAIN instances \cup {session_id} |->
        IF s = session_id THEN instance ELSE instances[s]]

\* mutant: one instance is shared across the sessions
app_start_game_SharedInstance(instances, session_id) ==
    IF session_id = NoSession
    THEN {[game_instances |-> instances,
           result |-> [status |-> "error", message |-> <<"No session found">>]]}
    ELSE {[game_instances |->
              [s \in DOMAIN instances \cup {session_id} |-> out.self],
           result |-> out.result] : out \in start_game(__init__)}

app_start_game(instances, session_id) ==
    IF session_id = NoSession
    THEN {[game_instances |-> instances,
           result |-> [status |-> "error", message |-> <<"No session found">>]]}
    ELSE {[game_instances |-> dict_set(instances, session_id, out.self),
           result |-> out.result] : out \in start_game(__init__)}

app_submit_country(instances, session_id, country_name) ==
    IF session_id = NoSession \/ session_id \notin DOMAIN instances
    THEN {[game_instances |-> instances,
           result |-> [status |-> "error",
                       message |-> <<"No active game found">>]]}
    ELSE IF country_name = <<>>
    THEN {[game_instances |-> instances,
           result |-> [status |-> "error",
                       message |-> <<"No country name provided">>]]}
    ELSE {[game_instances |-> dict_set(instances, session_id, out.self),
           result |-> out.result]
            : out \in process_player_turn(instances[session_id], country_name)}

app_game_state(instances, session_id) ==
    IF session_id = NoSession \/ session_id \notin DOMAIN instances
    THEN {[game_instances |-> instances,
           result |-> [status |-> "inactive",
                       message |-> <<"No active game found">>]]}
    ELSE {[game_instances |-> dict_set(instances, session_id, out.self),
           result |-> out.result]
            : out \in get_game_state(instances[session_id])}

\* the country list of the sessions' stores
AppCountryLists ==
    {<<>>,
     SubSeq(countries, 1, IF NumAppCountries < Len(countries)
                          THEN NumAppCountries ELSE Len(countries))}

\* the country of the requests
AppInputs ==
    UNION {Range(names) : names \in AppCountryLists} \cup {<<"O","z">>, <<>>}

AppTexts == {preprocess_text(text) : text \in AppInputs}

\* the classifiers of the sessions: the one that labels every text 1 and the
\* one that labels the texts of the catalog's first letter 0
AppClassifiers ==
    {AppTexts,
     {text \in AppTexts : countries_data = <<>>
                             \/ ~startswith(text, countries_data[1][1])}}

InitApp ==
    /\ \E names \in AppCountryLists :
          /\ countries_data = _load_countries_data(names)
          /\ countries_by_letter =
                _index_countries_by_letter(_load_countries_data(names))
    /\ model \in AppClassifiers
    /\ game = __init__
    /\ call = [op |-> "__init__", arg |-> <<>>, session_id |-> NoSession]
    /\ result = [status |-> "None"]
    /\ game_instances = <<>>

Responds(op, arg, session_id, outcomes) ==
    /\ \E out \in outcomes :
          /\ game_instances' = out.game_instances
          /\ result' = out.result
    /\ call' = [op |-> op, arg |-> arg, session_id |-> session_id]
    /\ UNCHANGED <<countries_data, countries_by_letter, model, game>>

AppStartGame ==
    \E session_id \in SessionIds \cup {NoSession} :
        Responds("start_game", <<>>, session_id,
                 app_start_game(game_instances, session_id))

AppSubmitCountry ==
    \E session_id \in SessionIds \cup {NoSession}, country_name \in AppInputs :
        Responds("submit_country", country_name, session_id,
                 app_submit_country(game_instances, session_id, country_name))

AppGameState ==
    \E session_id \in SessionIds \cup {NoSession} :
        Responds("game_state", <<>>, session_id,
                 app_game_state(game_instances, session_id))

NextApp == AppStartGame \/ AppSubmitCountry \/ AppGameState

SpecApp == InitApp /\ [][NextApp]_vars

(***************************************************************************)
(* The normaliser on its own: preprocess_text applied to any text          *)
(***************************************************************************)
\* a cased pair, a digit, the whitespace and the punctuation of the texts
TextAlphabet == {"a", "B", "1", " ", "\t", "-", "_"}

TextInputs == UNION {[1..n -> TextAlphabet] : n \in 0..MaxTextLen}

InitText ==
    /\ countries_data = _load_countries_data(<<>>)
    /\ countries_by_letter = _index_countries_by_letter(<<>>)
    /\ model = {}
    /\ game = __init__
    /\ call = [op |-> "__init__", arg |-> <<>>]
    /\ result = [status |-> "None"]
    /\ game_instances = <<>>

\* one text is normalised in a run
PreprocessText ==
    /\ call.op = "__init__"
    /\ \E text \in TextInputs :
          /\ call' = [op |-> "preprocess_text", arg |-> text]
          /\ result' = preprocess_text(text)
    /\ UNCHANGED <<countries_data, countries_by_letter, model, game,
                   game_instances>>

NextText == PreprocessText

SpecText == InitText /\ [][NextText]_vars

(***************************************************************************)
(* The vocabulary of the properties, stated on the stored data directly    *)
(***************************************************************************)
OracleAccepts(text) == text \in model

CatalogContains(text) == \E i \in DOMAIN countries_data : countries_data[i] = text

Valid(text) == OracleAccepts(text) /\ CatalogContains(text)

StartsWith(text, letter) == Len(text) > 0 /\ text[1] = letter

\* the catalog countries that start with the letter
CatalogByLetter(letter) ==
    {countries_data[i] : i \in {j \in DOMAIN countries_data :
                                   StartsWith(countries_data[j], letter)}}

\* this step is a call of process_player_turn on an active session
PlayerCallOnActive == call'.op = "process_player_turn" /\ game.game_active

\* the normalized input of the call this step makes
NormalizedInput == preprocess_text(call'.arg)

\* the three checks of the call this step makes
PassesChecks ==
    /\ Valid(NormalizedInput)
    /\ StartsWith(NormalizedInput, game.current_letter)
    /\ NormalizedInput \notin game.used_countries

RejectionReasons == {"invalid_country", "wrong_letter", "already_used"}

(***************************************************************************)
(* Properties                                                              *)
(***************************************************************************)
\* C1: a valid, unused input with the current letter on an active session is
\* added in normalized form, and turn_count grows by 2 with the session still
\* active, or by 1 when no catalog country with the letter is left for the
\* opponent.
C1_AcceptedMove ==
    [][(PlayerCallOnActive /\ PassesChecks) =>
          /\ NormalizedInput \in game'.used_countries
          /\ IF CatalogByLetter(game.current_letter)
                  \subseteq game.used_countries \cup {NormalizedInput}
             THEN game'.turns_count = game.turns_count + 1
             ELSE /\ game'.turns_count = game.turns_count + 2
                  /\ game'.game_active]_vars

\* a move typed with other case and punctuation was accepted and answered
C1_Witness ==
    /\ call.op = "process_player_turn"
    /\ call.arg # preprocess_text(call.arg)
    /\ result.status = "success"
    /\ preprocess_text(call.arg) \in game.used_countries
    /\ game.turns_count = 2
    /\ game.game_active

\* C2: a call of process_player_turn on an active session that fails one of
\* the three checks changes nothing but the active flag, which becomes false.
C2_RejectionOnlyDeactivates ==
    [][(PlayerCallOnActive /\ ~PassesChecks) =>
          game' = [game EXCEPT !.game_active = FALSE]]_vars

\* a move was rejected in the middle of a game
C2_Witness ==
    /\ call.op = "process_player_turn"
    /\ result.status = "game_over"
    /\ result.reason \in RejectionReasons
    /\ ~game.game_active
    /\ game.used_countries # {}
    /\ game.turns_count > 0

\* C3: process_player_turn on a session that is not active returns an error
\* and changes nothing, and only start_game makes an inactive session active.
C3_InactiveSessionRefuses ==
    [][/\ (call'.op = "process_player_turn" /\ ~game.game_active) =>
              (game' = game /\ result'.status = "error")
       /\ (~game.game_active /\ game'.game_active) =>
              call'.op = "start_game"]_vars

\* a turn was submitted to a game that had ended
C3_Witness ==
    /\ call.op = "process_player_turn"
    /\ result.status = "error"
    /\ game.current_letter # None
    /\ game.used_countries # {}
    /\ ~game.game_active

\* C4: start_game on a store without starting letters returns an error and
\* leaves the four fields of the session as they were.
C4_StartWithoutLetters ==
    [][(call'.op = "start_game" /\ get_available_starting_letters = {}) =>
          (result'.status = "error" /\ game' = game)]_vars

\* start_game failed for want of a letter
C4_Witness ==
    /\ call.op = "start_game"
    /\ get_available_starting_letters = {}
    /\ result.status = "error"

\* C5: after start_game on a store with letters, whatever the session was
\* before, the session is active, used_countries is empty, turn_count is 0
\* and current_letter is one of the available letters.
C5_StartResets ==
    (call.op = "start_game" /\ get_available_starting_letters # {}) =>
        /\ game.game_active
        /\ game.used_countries = {}
        /\ game.turns_count = 0
        /\ game.current_letter \in get_available_starting_letters

\* a game was started
C5_Witness ==
    /\ call.op = "start_game"
    /\ result.status = "success"
    /\ char_lower(result.letter) = game.current_letter
    /\ game.game_active

\* the reason of a result, None when it carries none
ReasonOf(r) == IF "reason" \in DOMAIN r THEN r.reason ELSE None

\* C6: every entry of the catalog and every member of used_countries equals
\* its own normalization.
C6_StoredNormalized ==
    /\ \A i \in DOMAIN countries_data :
          preprocess_text(countries_data[i]) = countries_data[i]
    /\ \A country \in game.used_countries :
          preprocess_text(country) = country

\* C7: the reason of a failed process_player_turn is that of the first
\* failing check in the order validity, starting letter, uniqueness, and a
\* game_over result carries one of the four reasons.
C7_FirstFailingCheck ==
    [][/\ PlayerCallOnActive =>
            /\ ~Valid(NormalizedInput) =>
                  (result'.status = "game_over"
                     /\ ReasonOf(result') = "invalid_country")
            /\ ReasonOf(result') = "wrong_letter" <=>
                  (Valid(NormalizedInput)
                     /\ ~StartsWith(NormalizedInput, game.current_letter))
            /\ ReasonOf(result') = "already_used" <=>
                  (Valid(NormalizedInput)
                     /\ StartsWith(NormalizedInput, game.current_letter)
                     /\ NormalizedInput \in game.used_countries)
       /\ result'.status = "game_over" =>
            ReasonOf(result') \in
                RejectionReasons \cup {"computer_out_of_options"}]_vars

\* an input that is neither valid nor of the current letter was rejected as
\* invalid
C7_Witness ==
    /\ call.op = "process_player_turn"
    /\ ReasonOf(result) = "invalid_country"
    /\ ~Valid(preprocess_text(call.arg))
    /\ ~StartsWith(preprocess_text(call.arg), game.current_letter)

\* C8: after an accepted player move the opponent either adds one unused
\* country of get_countries_by_letter(current_letter), counts its turn,
\* returns success with the new turn_count and leaves the session active, or,
\* when no catalog country with the letter is unused, deactivates the session
\* with reason computer_out_of_options and adds and counts nothing.
C8_OpponentTurn ==
    [][(PlayerCallOnActive /\ PassesChecks) =>
          LET played == game.used_countries \cup {NormalizedInput}
          IN  IF CatalogByLetter(game.current_letter) \subseteq played
              THEN /\ ~game'.game_active
                   /\ result'.status = "game_over"
                   /\ ReasonOf(result') = "computer_out_of_options"
                   /\ game'.used_countries = played
                   /\ game'.turns_count = game.turns_count + 1
              ELSE /\ \E country \in
                          Range(get_countries_by_letter(game.current_letter))
                            \ played :
                          /\ game'.used_countries = played \cup {country}
                          /\ str_lower(result'.computer_choice) = country
                   /\ game'.turns_count = game.turns_count + 2
                   /\ result'.status = "success"
                   /\ result'.turn = game'.turns_count
                   /\ game'.game_active]_vars

\* the opponent answered an accepted move with another country
C8_Witness ==
    /\ call.op = "process_player_turn"
    /\ result.status = "success"
    /\ result.turn = game.turns_count
    /\ str_lower(result.computer_choice) \in game.used_countries
    /\ str_lower(result.computer_choice) # preprocess_text(call.arg)
    /\ Cardinality(game.used_countries) = 2
    /\ game.game_active

\* C9: process_player_turn ends the game with invalid_country whenever the
\* oracle rejects the normalized input or the catalog lacks it, and a move is
\* accepted only when both agree.
C9_ConjunctiveValidity ==
    [][PlayerCallOnActive =>
          /\ (~OracleAccepts(NormalizedInput)
                \/ ~CatalogContains(NormalizedInput)) =>
                (ReasonOf(result') = "invalid_country" /\ ~game'.game_active)
          /\ game'.used_countries # game.used_countries =>
                (OracleAccepts(NormalizedInput)
                   /\ CatalogContains(NormalizedInput))]_vars

\* an unused catalog country of the current letter that the oracle rejects
\* ended the game
C9_Witness ==
    /\ call.op = "process_player_turn"
    /\ ReasonOf(result) = "invalid_country"
    /\ CatalogContains(preprocess_text(call.arg))
    /\ StartsWith(preprocess_text(call.arg), game.current_letter)
    /\ preprocess_text(call.arg) \notin game.used_countries
    /\ ~OracleAccepts(preprocess_text(call.arg))

\* C10: get_game_state changes no field of the session; it reports inactive
\* when the session is not active, and otherwise active with the current
\* letter, every used country and turn_count.
C10_GetStateReadOnly ==
    [][call'.op = "get_game_state" =>
          /\ game' = game
          /\ IF ~game.game_active
             THEN result'.status = "inactive"
             ELSE /\ result'.status = "active"
                  /\ char_lower(result'.current_letter) = game.current_letter
                  /\ {str_lower(country) : country \in result'.used_countries}
                        = game.used_countries
                  /\ Cardinality(result'.used_countries)
                        = Cardinality(game.used_countries)
                  /\ result'.turns_count = game.turns_count]_vars

\* the state of a game in progress was reported
C10_Witness ==
    /\ call.op = "get_game_state"
    /\ result.status = "active"
    /\ result.turns_count = 2
    /\ Cardinality(result.used_countries) = 2
    /\ game.game_active

\* C11: right after a successful start_game some catalog country starts with
\* current_letter and is not in used_countries.
C11_StartLetterHasCountry ==
    (call.op = "start_game" /\ result.status = "success") =>
        CatalogByLetter(game.current_letter) \ game.used_countries # {}

\* a game was started on a letter of the catalog
C11_Witness ==
    /\ call.op = "start_game"
    /\ result.status = "success"
    /\ game.game_active
    /\ game.used_countries = {}
    /\ CatalogByLetter(game.current_letter) # {}

\* C12: a request of one session leaves the instance of every other session
\* as it was: its used_countries, turns_count, current_letter and game_active.
C12_SessionsIndependent ==
    [][\A s \in SessionIds :
          s # call'.session_id =>
             /\ s \in DOMAIN game_instances' <=> s \in DOMAIN game_instances
             /\ s \in DOMAIN game_instances =>
                   game_instances'[s] = game_instances[s]]_vars

\* a session played its game to the end while another session stayed in the
\* middle of a game of its own
C12_Witness ==
    /\ call.op = "submit_country"
    /\ result.status = "game_over"
    /\ game_instances[call.session_id].used_countries # {}
    /\ \E s \in DOMAIN game_instances :
          /\ s # call.session_id
          /\ game_instances[s].game_active
          /\ game_instances[s].turns_count = 2
          /\ game_instances[s].used_countries
                # game_instances[call.session_id].used_countries

\* C13: a call other than start_game removes nothing from used_countries and
\* does not lower turn_count, and turn_count grows by exactly the number of
\* countries added: one per accepted move of the player and of the opponent.
C13_MonotoneBetweenStarts ==
    [][call'.op # "start_game" =>
          /\ game.used_countries \subseteq game'.used_countries
          /\ game'.turns_count >= game.turns_count
          /\ game'.turns_count - game.turns_count
                = Cardinality(game'.used_countries \ game.used_countries)
          /\ game'.turns_count - game.turns_count \in 0..2]_vars

\* the player and the opponent each added a country
C13_Witness ==
    /\ call.op = "process_player_turn"
    /\ result.status = "success"
    /\ game.turns_count = 2
    /\ Cardinality(game.used_countries) = 2

\* the by-letter index holds exactly the catalog, each name under its own
\* first character, and the available letters are those with countries
IndexConsistent ==
    /\ \A letter \in DOMAIN countries_by_letter :
          \A i \in DOMAIN countries_by_letter[letter] :
             /\ CatalogContains(countries_by_letter[letter][i])
             /\ StartsWith(countries_by_letter[letter][i], letter)
    /\ \A i \in DOMAIN countries_data :
          /\ countries_data[i][1] \in DOMAIN countries_by_letter
          /\ countries_data[i]
                \in Range(countries_by_letter[countries_data[i][1]])
    /\ get_available_starting_letters =
          {letter \in lowercase_set \cup DOMAIN countries_by_letter :
              get_countries_by_letter(letter) # <<>>}

\* C14: the by-letter index and the catalog hold the same names, each under
\* its first character; the available letters are exactly the letters with a
\* non-empty get_countries_by_letter; and no call changes the catalog or the
\* index.
C14_CatalogConsistentImmutable ==
    /\ []IndexConsistent
    /\ [][/\ countries_data' = countries_data
          /\ countries_by_letter' = countries_by_letter]_vars

\* a move was answered over a store that has a letter with several countries
C14_Witness ==
    /\ call.op = "process_player_turn"
    /\ result.status = "success"
    /\ \E letter \in DOMAIN countries_by_letter :
          Len(countries_by_letter[letter]) > 1
    /\ Len(countries_data) > 2

\* C15: preprocess_text applied to its own result returns that result, and
\* the empty text gives the empty text.
C15_PreprocessIdempotent ==
    call.op = "preprocess_text" =>
        /\ preprocess_text(result) = result
        /\ call.arg = <<>> => result = <<>>

\* a text with upper case, punctuation and whitespace was normalised to
\* something else
C15_Witness ==
    /\ call.op = "preprocess_text"
    /\ Len(call.arg) = 3
    /\ result # call.arg
    /\ result # <<>>
    /\ \E i \in DOMAIN call.arg : call.arg[i] = "-"
    /\ \E i \in DOMAIN call.arg : IsSpace(call.arg[i])

\* C16: the result of preprocess_text holds only lower-case letters, digits
\* and single spaces: no punctuation (the underscore included) and no
\* leading, trailing or repeated whitespace.
C16_OnlyAlphanumericsAndSpaces ==
    call.op = "preprocess_text" =>
        /\ \A i \in DOMAIN result :
              result[i] \in lowercase_set \cup digit_set \cup {" "}
        /\ result # <<>> => (result[1] # " " /\ result[Len(result)] # " ")
        /\ \A i \in 1..(Len(result) - 1) :
              ~(result[i] = " " /\ result[i+1] = " ")

\* C17: turn_count equals the number of used countries in every state of a
\* session.
C17_TurnsCountUsed ==
    game.turns_count = Cardinality(game.used_countries)

\* a game ended after a single counted move
C17_Witness ==
    /\ call.op = "process_player_turn"
    /\ ~game.game_active
    /\ game.turns_count = 1
    /\ Cardinality(game.used_countries) = 1

\* once a game has been started, current_letter is an available letter and
\* every used country is a catalog entry starting with it
UsedCountriesOfLetter ==
    game.current_letter # None =>
        /\ game.current_letter \in get_available_starting_letters
        /\ \A country \in game.used_countries :
              /\ CatalogContains(country)
              /\ StartsWith(country, game.current_letter)

\* C18: after a successful start_game current_letter is an available letter
\* and every used country is a catalog entry that starts with it, and only
\* start_game changes current_letter.
C18_LetterAndUsedCountries ==
    /\ []UsedCountriesOfLetter
    /\ [][game'.current_letter # game.current_letter =>
             call'.op = "start_game"]_vars

\* two countries of the current letter were played
C18_Witness ==
    /\ game.current_letter \in get_available_starting_letters
    /\ Cardinality(game.used_countries) = 2
    /\ \A country \in game.used_countries :
          StartsWith(country, game.current_letter)
    /\ call.op = "process_player_turn"

\* C19: a session is inactive with reason computer_out_of_options only when
\* used_countries is the whole set of catalog countries of current_letter and
\* turn_count is odd, so never for a letter with an even number of countries;
\* and turn_count is even whenever the session is active.
C19_OutOfOptionsParity ==
    /\ ReasonOf(result) = "computer_out_of_options" =>
          /\ ~game.game_active
          /\ game.used_countries = CatalogByLetter(game.current_letter)
          /\ game.turns_count % 2 = 1
          /\ Cardinality(CatalogByLetter(game.current_letter)) % 2 = 1
    /\ game.game_active => game.turns_count % 2 = 0

\* the opponent ran out of countries
C19_Witness ==
    /\ call.op = "process_player_turn"
    /\ ReasonOf(result) = "computer_out_of_options"
    /\ game.used_countries = CatalogByLetter(game.current_letter)
    /\ game.used_countries # {}

\* turn_count never exceeds the number of catalog countries of the letter,
\* so neither does the number of accepted player moves exceed its half,
\* rounded up
TurnsBounded ==
    LET N == Cardinality(CatalogByLetter(game.current_letter))
    IN  /\ game.turns_count <= N
        /\ (game.turns_count + 1) \div 2 <= (N + 1) \div 2

\* C20: turn_count never exceeds the number of catalog countries of
\* current_letter, and a started game whose player keeps submitting turns,
\* with no further start_game, eventually becomes inactive.
C20_GameTerminates ==
    /\ []TurnsBounded
    /\ game.game_active ~> ~game.game_active

\* a game ended by a rejected move after a full round
C20_Witness ==
    /\ call.op = "process_player_turn"
    /\ result.status = "game_over"
    /\ ReasonOf(result) \in RejectionReasons
    /\ ~game.game_active
    /\ game.turns_count = 2
    /\ game.turns_count = Cardinality(CatalogByLetter(game.current_letter))

====
